---- MODULE Spec2Model ----
(***************************************************************************)
(* Model of wol-mqtt.py: a daemon that listens on an MQTT broker for wake  *)
(* commands (wol/command), runs the wakeonlan helper for each accepted     *)
(* command, and publishes its availability on wol/status.                  *)
(*                                                                         *)
(* Two threads are modelled:                                               *)
(*   - the foreground thread (module body, lines 96-132): client setup,    *)
(*     connect/retry loop, heartbeat loop, shutdown path; its position is  *)
(*     pc;                                                                 *)
(*   - the network thread started by client.loop_start() (line 109), on    *)
(*     which the client library runs the callbacks on_connect (27-41) and  *)
(*     on_message (44-58); its position is npc.                            *)
(* The broker, the network and the wakeonlan helper are the environment.   *)
(***************************************************************************)
EXTENDS Integers, Sequences, FiniteSets, TLC

\* ------------------------------------------------------------------ bounds
\* Largest integer `repeat` value a command carries in the model.
MaxRepeat == 2
\* Number of command messages the broker delivers in one behaviour.
MaxMsgs == 2
\* Number of times the broker refuses the connection before it accepts.
MaxRefusals == 2
\* Number of connections established in one behaviour.
MaxConns == 2

\* ------------------------------------------------------- program constants
\* wakeup(mac, ip=None, count=2) and `else 2` in on_message.
DefaultCount == 2

\* ----------------------------------------------------------------- values
\* Python None / a key that is not in the decoded data.
NoVal == "<none>"
\* A JSON value that is not a string where a string is needed (e.g. 5).
NonString == "<nonstring>"

MacValues == {"", "AA:BB:CC:DD:EE:FF", NonString}
IpValues == {"10.0.0.5"}

\* The `repeat` field: absent, an integer, or a value range() refuses.
RepeatValues ==
    {[t |-> "absent", v |-> 0], [t |-> "nonint", v |-> 0]}
        \cup {[t |-> "int", v |-> n] : n \in (-1) .. MaxRepeat}

\* Payloads that decode to a JSON object.
ObjectPayloads ==
    {[kind |-> "object",
      elems |-> {},
      mac |-> m, ip |-> a, rtype |-> r.t, repeat |-> r.v] :
        m \in MacValues \cup {NoVal}, a \in IpValues \cup {NoVal},
        r \in RepeatValues}

\* Payloads that are not a JSON object.  `elems` is what Python's `in`
\* finds in the decoded value: the substrings of a JSON string, the elements
\* of a JSON list.
\*   notutf8 : bytes that are not UTF-8 text
\*   notjson : text json.loads cannot parse, e.g. `not valid json`
\*   number  : e.g. `5`
\*   string  : e.g. `"abc"`
\*   list    : e.g. `["mac"]`
NonObject(k, e) ==
    [kind |-> k, elems |-> e, mac |-> NoVal, ip |-> NoVal,
     rtype |-> "absent", repeat |-> 0]

NonObjectPayloads ==
    {NonObject("notutf8", {}), NonObject("notjson", {}),
     NonObject("number", {}), NonObject("string", {}),
     NonObject("list", {"mac"})}

Payloads == ObjectPayloads \cup NonObjectPayloads

NoPayload == NonObject("none", {})

\* What one run of the wakeonlan helper can do:
\*   ok      : stdout contains "magic packet"
\*   nomatch : the helper ran, stdout lacks the phrase (any exit status)
\*   missing : the helper binary cannot be executed (subprocess.run raises)
HelperOutcomes == {"ok", "nomatch", "missing"}

\* ---------------------------------------------------------------- state
VARIABLES
    pc,          \* foreground thread position
    npc,         \* network thread position
    conn,        \* client connection: "none", "pending" (CONNECT sent), "up"
    willSet,     \* last will registered on the client (line 99)
    terminate,   \* loop_stop() asked the network thread to end
    interrupted, \* KeyboardInterrupt was delivered
    rejected,    \* a CONNACK with rc != 0 was handled
    subs,        \* subscribe calls issued on the current connection
    onlineCb,    \* "online" publishes by on_connect on the current connection
    offlinePubs, \* "offline" publish calls issued (line 126)
    arrived,     \* command messages delivered by the broker so far
    inbox,       \* received messages not yet dispatched (ids, arrival order)
    cur,         \* payload of the message being / last handled
    curId,       \* id of the message being / last handled
    wk,          \* handling of cur: none, malformed, nomac, raised,
                 \*   running, completed, aborted
    count,       \* wakeup's count
    i,           \* wakeup's loop index
    sends,       \* send_wol invocations for cur
    succ,        \* send_wol invocations for cur that returned True
    pauses,      \* time.sleep(1) calls for cur
    failedAt,    \* index (1-based) of the first send that did not return True
    lastStep,    \* last thing wakeup did for cur: none, send, pause
    woke,        \* wakeup was called for cur
    lastSend,    \* the last send_wol call for cur: helper command line,
                 \*   helper outcome, result, error logged
    refusals,    \* client.connect() calls that raised ConnectionRefusedError
    conns        \* connections established (line 108 and reconnections)

vars == <<pc, npc, conn, willSet, terminate, interrupted, rejected, subs,
          onlineCb, offlinePubs, arrived, inbox, cur, curId, wk, count, i,
          sends, succ, pauses, failedAt, lastStep, woke, lastSend,
          refusals, conns>>

wakeVars == <<cur, curId, wk, count, i, sends, succ, pauses, failedAt,
              lastStep, woke, lastSend>>

connVars == <<refusals, conns>>

NoSend == [argv |-> <<>>, helper |-> "none", result |-> "none",
           logged |-> FALSE]

Init ==
    /\ pc = "setup"
    /\ npc = "none"
    /\ conn = "none"
    /\ willSet = FALSE
    /\ terminate = FALSE
    /\ interrupted = FALSE
    /\ rejected = FALSE
    /\ subs = 0
    /\ onlineCb = 0
    /\ offlinePubs = 0
    /\ arrived = 0
    /\ inbox = <<>>
    /\ cur = NoPayload
    /\ curId = 0
    /\ wk = "none"
    /\ count = 0
    /\ i = 0
    /\ sends = 0
    /\ succ = 0
    /\ pauses = 0
    /\ failedAt = 0
    /\ lastStep = "none"
    /\ woke = FALSE
    /\ lastSend = NoSend
    /\ refusals = 0
    /\ conns = 0

\* ------------------------------------------------- foreground thread
\* Positions inside the outer try block (lines 96-118), where a
\* KeyboardInterrupt is caught by line 120.
TryRegion ==
    {"setup", "connect", "loop_start", "hb_publish", "hb_sleep",
     "refused_sleep"}

\* What client.connect() (line 108) can do: return, raise
\* ConnectionRefusedError, or raise another OSError (name resolution,
\* timeout, unreachable host).
ConnectOutcomes == {"ok", "refused", "oserror"}

\* The client setup without the will_set call of line 99.
Setup_NoWill ==
    /\ pc = "setup"
    /\ pc' = "connect"
    /\ UNCHANGED <<npc, conn, willSet, terminate, interrupted, rejected,
                   subs, onlineCb, offlinePubs, arrived, inbox>>
    /\ UNCHANGED wakeVars
    /\ UNCHANGED connVars

\* Lines 99-102: will_set, username_pw_set, callbacks.
Setup ==
    /\ pc = "setup"
    /\ willSet' = TRUE
    /\ pc' = "connect"
    /\ UNCHANGED <<npc, conn, terminate, interrupted, rejected, subs,
                   onlineCb, offlinePubs, arrived, inbox>>
    /\ UNCHANGED wakeVars
    /\ UNCHANGED connVars

\* The main loop without the handler of lines 116-118: a refused connect
\* is as fatal as any other exception.
AfterConnect_NoHandler(r) ==
    CASE r = "ok" -> "loop_start"
      [] OTHER -> "crashed"

\* Where the foreground thread goes after client.connect(): line 109 when
\* it returns, the handler of line 116 on ConnectionRefusedError; any other
\* exception is caught nowhere and ends the process.
AfterConnect(r) ==
    CASE r = "ok" -> "loop_start"
      [] r = "refused" -> "refused_sleep"
      [] OTHER -> "crashed"

\* Lines 105-108: one connect attempt.
Connect ==
    /\ pc = "connect"
    /\ \E r \in ConnectOutcomes :
        /\ r = "refused" => refusals < MaxRefusals
        /\ pc' = AfterConnect(r)
        /\ refusals' = IF r = "refused" THEN refusals + 1 ELSE refusals
        /\ IF r = "ok"
             THEN /\ conn' = "pending" /\ subs' = 0 /\ onlineCb' = 0
                  /\ conns' = conns + 1
             ELSE UNCHANGED <<conn, subs, onlineCb, conns>>
    /\ UNCHANGED <<npc, willSet, terminate, interrupted, rejected,
                   offlinePubs, arrived, inbox>>
    /\ UNCHANGED wakeVars

\* Lines 116-118: log, sleep 30, back to the top of the outer loop.
RefusedSleep ==
    /\ pc = "refused_sleep"
    /\ pc' = "connect"
    /\ UNCHANGED <<npc, conn, willSet, terminate, interrupted, rejected,
                   subs, onlineCb, offlinePubs, arrived, inbox>>
    /\ UNCHANGED wakeVars
    /\ UNCHANGED connVars

\* Line 109: the network thread starts.
LoopStart ==
    /\ pc = "loop_start"
    /\ npc' = "idle"
    /\ pc' = "hb_publish"
    /\ UNCHANGED <<conn, willSet, terminate, interrupted, rejected, subs,
                   onlineCb, offlinePubs, arrived, inbox>>
    /\ UNCHANGED wakeVars
    /\ UNCHANGED connVars

\* A heartbeat publish that waits for the callback in progress (as if the
\* two threads shared a lock held during on_message).
HeartbeatGuard_WaitsForCallback == npc \notin {"wk_send", "wk_sleep"}

\* The condition under which the heartbeat loop issues its publish: the
\* inner loop of lines 111-114 is `while(True)` and tests nothing.
HeartbeatGuard == TRUE

\* Lines 112-113: publish "online" on wol/status.
HeartbeatPublish ==
    /\ pc = "hb_publish"
    /\ HeartbeatGuard
    /\ pc' = "hb_sleep"
    /\ UNCHANGED <<npc, conn, willSet, terminate, interrupted, rejected,
                   subs, onlineCb, offlinePubs, arrived, inbox>>
    /\ UNCHANGED wakeVars
    /\ UNCHANGED connVars

\* A heartbeat loop that is left when the session is down, back to the
\* connect of the outer loop.
AfterHeartbeatSleep_LeaveWhenDown ==
    IF conn = "none" THEN "connect" ELSE "hb_publish"

\* Where the heartbeat loop goes after its sleep: `while(True)` has no
\* exit, whatever the connection state.
AfterHeartbeatSleep == "hb_publish"

\* Line 114: time.sleep(UPDATE_INTERVAL) returns.
HeartbeatSleep ==
    /\ pc = "hb_sleep"
    /\ pc' = AfterHeartbeatSleep
    /\ UNCHANGED <<npc, conn, willSet, terminate, interrupted, rejected,
                   subs, onlineCb, offlinePubs, arrived, inbox>>
    /\ UNCHANGED wakeVars
    /\ UNCHANGED connVars

\* Lines 120-121: KeyboardInterrupt raised in the foreground thread while
\* it is inside the outer try block.
Interrupt ==
    /\ pc \in TryRegion
    /\ interrupted' = TRUE
    /\ pc' = "sd_publish"
    /\ UNCHANGED <<npc, conn, willSet, terminate, rejected, subs, onlineCb,
                   offlinePubs, arrived, inbox>>
    /\ UNCHANGED wakeVars
    /\ UNCHANGED connVars

\* The shutdown path publishing "offline" only when a connection exists.
ShutdownPublish_OnlyConnected ==
    /\ pc = "sd_publish"
    /\ offlinePubs' = IF conn = "up" THEN offlinePubs + 1 ELSE offlinePubs
    /\ pc' = "sd_sleep"
    /\ UNCHANGED <<npc, conn, willSet, terminate, interrupted, rejected,
                   subs, onlineCb, arrived, inbox>>
    /\ UNCHANGED wakeVars
    /\ UNCHANGED connVars

\* Lines 124-126: publish "offline".  publish() on a client without a
\* connection returns an error code and raises nothing.
ShutdownPublish ==
    /\ pc = "sd_publish"
    /\ offlinePubs' = offlinePubs + 1
    /\ pc' = "sd_sleep"
    /\ UNCHANGED <<npc, conn, willSet, terminate, interrupted, rejected,
                   subs, onlineCb, arrived, inbox>>
    /\ UNCHANGED wakeVars
    /\ UNCHANGED connVars

\* Lines 128-129: time.sleep(3).
ShutdownSleep ==
    /\ pc = "sd_sleep"
    /\ pc' = "sd_loop_stop"
    /\ UNCHANGED <<npc, conn, willSet, terminate, interrupted, rejected,
                   subs, onlineCb, offlinePubs, arrived, inbox>>
    /\ UNCHANGED wakeVars
    /\ UNCHANGED connVars

\* Line 131, first half: loop_stop() tells the network thread to end.
LoopStop ==
    /\ pc = "sd_loop_stop"
    /\ terminate' = TRUE
    /\ pc' = "sd_join"
    /\ UNCHANGED <<npc, conn, willSet, interrupted, rejected, subs,
                   onlineCb, offlinePubs, arrived, inbox>>
    /\ UNCHANGED wakeVars
    /\ UNCHANGED connVars

\* A join that gives up while the network thread sleeps in wakeup.
ThreadGone_OrSleeping == {"none", "stopped", "exited", "dead", "wk_sleep"}

\* Network thread positions in which the thread is not running (never
\* started, or ended).
ThreadGone == {"none", "stopped", "exited", "dead"}

\* A loop_stop() that returns without waiting for the network thread.
LoopStopJoin_NoWait ==
    /\ pc = "sd_join"
    /\ pc' = "sd_disconnect"
    /\ UNCHANGED <<npc, conn, willSet, terminate, interrupted, rejected,
                   subs, onlineCb, offlinePubs, arrived, inbox>>
    /\ UNCHANGED wakeVars
    /\ UNCHANGED connVars

\* Line 131, second half: loop_stop() joins the network thread; it returns
\* at once when there is no running thread.
LoopStopJoin ==
    /\ pc = "sd_join"
    /\ npc \in ThreadGone
    /\ pc' = "sd_disconnect"
    /\ UNCHANGED <<npc, conn, willSet, terminate, interrupted, rejected,
                   subs, onlineCb, offlinePubs, arrived, inbox>>
    /\ UNCHANGED wakeVars
    /\ UNCHANGED connVars

\* Line 132: disconnect() (an error code, no exception, without connection).
Disconnect ==
    /\ pc = "sd_disconnect"
    /\ conn' = "none"
    /\ inbox' = <<>>
    /\ pc' = "done"
    /\ UNCHANGED <<npc, willSet, terminate, interrupted, rejected, subs,
                   onlineCb, offlinePubs, arrived>>
    /\ UNCHANGED wakeVars
    /\ UNCHANGED connVars

Foreground ==
    \/ Setup \/ Connect \/ RefusedSleep \/ LoopStart
    \/ HeartbeatPublish \/ HeartbeatSleep
    \/ ShutdownPublish \/ ShutdownSleep \/ LoopStop \/ LoopStopJoin
    \/ Disconnect

\* ---------------------------------------------------- network thread
\* CONNACK result codes: 0 is success, 5 stands for every refusal.
ConnackCodes == {0, 5}

\* on_connect without the subscribe of line 36.
OnConnectBranch_NoSubscribe(rc) ==
    IF rc = 0 THEN "oc_publish" ELSE "oc_disconnect"

\* Line 32: the branch on_connect takes.
OnConnectBranch(rc) == IF rc = 0 THEN "oc_subscribe" ELSE "oc_disconnect"

\* The broker's CONNACK is read by the network thread, which calls
\* on_connect (lines 27-32).
Connack ==
    /\ npc = "idle"
    /\ conn = "pending"
    /\ ~terminate
    /\ \E rc \in ConnackCodes :
        /\ npc' = OnConnectBranch(rc)
        /\ conn' = IF rc = 0 THEN "up" ELSE conn
        /\ rejected' = (rejected \/ rc # 0)
    /\ UNCHANGED <<pc, willSet, terminate, interrupted, subs, onlineCb,
                   offlinePubs, arrived, inbox>>
    /\ UNCHANGED wakeVars
    /\ UNCHANGED connVars

\* Line 36: client.subscribe("wol/command").
OnConnectSubscribe ==
    /\ npc = "oc_subscribe"
    /\ subs' = subs + 1
    /\ npc' = "oc_publish"
    /\ UNCHANGED <<pc, conn, willSet, terminate, interrupted, rejected,
                   onlineCb, offlinePubs, arrived, inbox>>
    /\ UNCHANGED wakeVars
    /\ UNCHANGED connVars

\* Line 37: client.publish("wol/status", "online"); on_connect returns.
OnConnectPublish ==
    /\ npc = "oc_publish"
    /\ onlineCb' = onlineCb + 1
    /\ npc' = "idle"
    /\ UNCHANGED <<pc, conn, willSet, terminate, interrupted, rejected,
                   subs, offlinePubs, arrived, inbox>>
    /\ UNCHANGED wakeVars
    /\ UNCHANGED connVars

\* Lines 39-40: log the failure, client.disconnect().
OnConnectDisconnect ==
    /\ npc = "oc_disconnect"
    /\ conn' = "none"
    /\ inbox' = <<>>
    /\ npc' = "oc_sleep"
    /\ UNCHANGED <<pc, willSet, terminate, interrupted, rejected, subs,
                   onlineCb, offlinePubs, arrived>>
    /\ UNCHANGED wakeVars
    /\ UNCHANGED connVars

\* Line 41: time.sleep(5) returns and so does on_connect.  The client was
\* disconnected on purpose, so its network loop ends instead of
\* reconnecting.
OnConnectSleep ==
    /\ npc = "oc_sleep"
    /\ npc' = "exited"
    /\ UNCHANGED <<pc, conn, willSet, terminate, interrupted, rejected,
                   subs, onlineCb, offlinePubs, arrived, inbox>>
    /\ UNCHANGED wakeVars
    /\ UNCHANGED connVars

\* The broker delivers a command to the subscribed client (line 36 made
\* the subscription).  Messages are numbered in arrival order.
Arrive ==
    /\ conn = "up"
    /\ subs >= 1
    /\ arrived < MaxMsgs
    /\ arrived' = arrived + 1
    /\ inbox' = Append(inbox, arrived + 1)
    /\ UNCHANGED <<pc, npc, conn, willSet, terminate, interrupted, rejected,
                   subs, onlineCb, offlinePubs>>
    /\ UNCHANGED wakeVars
    /\ UNCHANGED connVars

\* The network thread finds the connection lost; the client library's loop
\* (started at line 109) waits and reconnects by itself.
ConnLost ==
    /\ npc = "idle"
    /\ conn \in {"pending", "up"}
    /\ ~terminate
    /\ conn' = "none"
    /\ inbox' = <<>>
    /\ npc' = "reconnect_wait"
    /\ UNCHANGED <<pc, willSet, terminate, interrupted, rejected, subs,
                   onlineCb, offlinePubs, arrived>>
    /\ UNCHANGED wakeVars
    /\ UNCHANGED connVars

\* The client library's loop re-establishes the connection; the CONNACK
\* that follows runs on_connect again (comment of lines 33-34).
Reconnect ==
    /\ npc = "reconnect_wait"
    /\ ~terminate
    /\ conns < MaxConns
    /\ conn' = "pending"
    /\ conns' = conns + 1
    /\ subs' = 0
    /\ onlineCb' = 0
    /\ npc' = "idle"
    /\ UNCHANGED <<pc, willSet, terminate, interrupted, rejected,
                   offlinePubs, arrived, inbox>>
    /\ UNCHANGED wakeVars
    /\ UNCHANGED refusals

\* loop_stop() (line 131) ends the network thread between two callbacks.
ThreadStop ==
    /\ npc \in {"idle", "reconnect_wait"}
    /\ terminate
    /\ npc' = "stopped"
    /\ UNCHANGED <<pc, conn, willSet, terminate, interrupted, rejected,
                   subs, onlineCb, offlinePubs, arrived, inbox>>
    /\ UNCHANGED wakeVars
    /\ UNCHANGED connVars

\* ------------------------------------------------ on_message (44-58)
\* Python's `k in data` for decoded data on which `in` is defined: key
\* presence for an object, substring for a string, membership for a list.
In(p, k) ==
    IF p.kind = "object"
      THEN CASE k = "mac" -> p.mac # NoVal
             [] k = "ip" -> p.ip # NoVal
             [] k = "repeat" -> p.rtype # "absent"
      ELSE k \in p.elems

\* on_message without the test of line 52: wakeup is called whether or
\* not the object has a mac.
OnMessageOutcome_NoMacTest(p) ==
    IF p.kind = "notutf8" THEN "raise"
    ELSE IF p.kind = "notjson" THEN "malformed"
    ELSE IF p.kind = "number" THEN "raise"
    ELSE IF p.kind # "object" /\ \E k \in {"ip", "repeat", "mac"} : In(p, k)
      THEN "raise"
    ELSE IF p.kind = "object" THEN "wake"
    ELSE "nomac"

\* on_message with a test that also refuses an empty mac.
OnMessageOutcome_RejectEmptyMac(p) ==
    IF p.kind = "notutf8" THEN "raise"
    ELSE IF p.kind = "notjson" THEN "malformed"
    ELSE IF p.kind = "number" THEN "raise"
    ELSE IF p.kind # "object" /\ \E k \in {"ip", "repeat", "mac"} : In(p, k)
      THEN "raise"
    ELSE IF In(p, "mac") /\ p.mac # "" THEN "wake"
    ELSE "nomac"

\* What on_message does with payload p, statement by statement:
\*   line 47  str(msg.payload, "UTF-8") raises on bytes that are not UTF-8
\*            (outside the try block);
\*   line 49  json.loads raises JSONDecodeError, caught at line 57;
\*   lines 50-53  `k in data` raises TypeError on a number, data[k] raises
\*            TypeError on a string or a list; only JSONDecodeError is caught;
\*   line 52  the branch on 'mac' in data.
\* "raise": an exception leaves on_message; "malformed": lines 57-58;
\* "nomac": line 55; "wake": line 53 calls wakeup.
OnMessageOutcome(p) ==
    IF p.kind = "notutf8" THEN "raise"
    ELSE IF p.kind = "notjson" THEN "malformed"
    ELSE IF p.kind = "number" THEN "raise"
    ELSE IF p.kind # "object" /\ \E k \in {"ip", "repeat", "mac"} : In(p, k)
      THEN "raise"
    ELSE IF In(p, "mac") THEN "wake"
    ELSE "nomac"

\* Line 51: count = data['repeat'] if 'repeat' in data else 2.
EffectiveCount(p) == IF In(p, "repeat") THEN p.repeat ELSE DefaultCount

\* Lines 75-79 for an accepted command: the log line, then range(count),
\* which raises TypeError unless count is an integer and starts no
\* iteration when count <= 0.
WakeupEntry(p) ==
    IF p.rtype = "nonint" THEN "raised"
    ELSE IF EffectiveCount(p) <= 0 THEN "completed"
    ELSE "running"

\* A dispatch that does not wait for the callback in progress (as if
\* wakeup were run asynchronously).
DispatchReady_Reentrant == npc \in {"idle", "wk_sleep"}

\* When the network thread can dispatch a message: on_message calls wakeup
\* itself (line 53) and wakeup sleeps on the calling thread (line 84), so
\* the thread is back in its loop only when the callback has returned.
DispatchReady == npc = "idle"

\* The network thread reads the next command and calls on_message; an
\* exception that leaves the callback ends the thread.  The content of a
\* message is drawn when it is dispatched.
OnMessage ==
    /\ DispatchReady
    /\ inbox # <<>>
    /\ ~terminate
    /\ \E p \in Payloads :
        LET o == OnMessageOutcome(p)
            w == IF o = "wake" THEN WakeupEntry(p)
                 ELSE IF o = "raise" THEN "raised" ELSE o
        IN  /\ cur' = p
            /\ woke' = (o = "wake")
            /\ wk' = w
            /\ count' = IF o = "wake" /\ p.rtype # "nonint"
                          THEN EffectiveCount(p) ELSE 0
            /\ npc' = CASE w = "raised" -> "dead"
                        [] w = "running" -> "wk_send"
                        [] OTHER -> "idle"
    /\ curId' = Head(inbox)
    /\ inbox' = Tail(inbox)
    /\ i' = 0
    /\ sends' = 0
    /\ succ' = 0
    /\ pauses' = 0
    /\ failedAt' = 0
    /\ lastStep' = "none"
    /\ lastSend' = NoSend
    /\ UNCHANGED <<pc, conn, willSet, terminate, interrupted, rejected,
                   subs, onlineCb, offlinePubs, arrived>>
    /\ UNCHANGED connVars

\* ---------------------------------------- send_wol (60-70), wakeup (72-84)
\* send_wol taking its first branch whatever ip is.
SendArgv_NoIp(mac, ip) == <<"wakeonlan", mac>>

\* Lines 63-66: the helper's command line.
SendArgv(mac, ip) ==
    IF ip = NoVal THEN <<"wakeonlan", mac>>
    ELSE <<"wakeonlan", "-i", ip, mac>>

\* Lines 64-70: what send_wol gives for helper outcome h.  subprocess.run
\* raises when the helper cannot be executed or an argument is not a
\* string; otherwise the result is whether stdout has "magic packet".
SendWolResult(mac, h) ==
    IF mac = NonString \/ h = "missing" THEN "raise"
    ELSE IF h = "ok" THEN "true"
    ELSE "false"

\* Line 79: the head of `for i in range(count)`: another iteration while
\* idx < cnt, otherwise wakeup and on_message return.
LoopNext(idx, cnt) == IF idx < cnt THEN "wk_send" ELSE "idle"

\* wakeup without the `break` of line 81: a failed send is followed by
\* the next iteration.
AfterSend_NoBreak(res, idx, cnt) ==
    CASE res = "raise" -> "dead"
      [] OTHER -> IF idx < cnt - 1 THEN "wk_sleep" ELSE LoopNext(idx + 1, cnt)

\* wakeup with `if i < count` at line 83: a sleep after every successful
\* send, the last one included.
AfterSend_PauseAlways(res, idx, cnt) ==
    CASE res = "raise" -> "dead"
      [] res = "false" -> "idle"
      [] OTHER -> IF idx < cnt THEN "wk_sleep" ELSE LoopNext(idx + 1, cnt)

\* Lines 80-84: where wakeup goes after send_wol gave res in iteration idx
\* of cnt: `break` on False, sleep when another iteration follows,
\* otherwise back to the loop head.  An exception leaves wakeup and
\* on_message.
AfterSend(res, idx, cnt) ==
    CASE res = "raise" -> "dead"
      [] res = "false" -> "idle"
      [] OTHER -> IF idx < cnt - 1 THEN "wk_sleep" ELSE LoopNext(idx + 1, cnt)

\* Lines 79-83: one iteration of wakeup's loop up to its sleep.
WakeSend ==
    /\ npc = "wk_send"
    /\ \E h \in HelperOutcomes :
        LET res == SendWolResult(cur.mac, h)
            nxt == AfterSend(res, i, count)
        IN  /\ lastSend' = [argv |-> SendArgv(cur.mac, cur.ip), helper |-> h,
                            result |-> res, logged |-> (res = "false")]
            /\ succ' = IF res = "true" THEN succ + 1 ELSE succ
            /\ failedAt' = IF res # "true" /\ failedAt = 0
                             THEN sends + 1 ELSE failedAt
            /\ npc' = nxt
            /\ i' = IF nxt = "wk_send" THEN i + 1 ELSE i
            /\ wk' = CASE nxt = "dead" -> "raised"
                       [] nxt = "idle" ->
                            IF res = "false" THEN "aborted" ELSE "completed"
                       [] OTHER -> wk
    /\ sends' = sends + 1
    /\ lastStep' = "send"
    /\ UNCHANGED <<pc, conn, willSet, terminate, interrupted, rejected,
                   subs, onlineCb, offlinePubs, arrived, inbox, cur, curId,
                   count, pauses, woke>>
    /\ UNCHANGED connVars

\* Line 84: time.sleep(1) returns; the loop goes to its next iteration.
WakeSleep ==
    /\ npc = "wk_sleep"
    /\ pauses' = pauses + 1
    /\ lastStep' = "pause"
    /\ i' = i + 1
    /\ npc' = LoopNext(i + 1, count)
    /\ wk' = IF LoopNext(i + 1, count) = "idle" THEN "completed" ELSE wk
    /\ UNCHANGED <<pc, conn, willSet, terminate, interrupted, rejected,
                   subs, onlineCb, offlinePubs, arrived, inbox, cur, curId,
                   count, sends, succ, failedAt, woke, lastSend>>
    /\ UNCHANGED connVars

\* Steps the network thread takes by itself once it can.
NetworkThread ==
    \/ OnConnectSubscribe \/ OnConnectPublish
    \/ OnConnectDisconnect \/ OnConnectSleep
    \/ OnMessage \/ WakeSend \/ WakeSleep \/ ThreadStop

\* What the broker, the network and the operator do.
Environment == Connack \/ Arrive \/ ConnLost \/ Reconnect \/ Interrupt

Next == Foreground \/ NetworkThread \/ Environment

Spec == Init /\ [][Next]_vars

\* Both threads are scheduled: each takes its next step when it has one.
FairSpec == Spec /\ WF_vars(Foreground) /\ WF_vars(NetworkThread)

\* ===================================================== properties
\* The wake sequence of cur is over (wakeup returned or was left by an
\* exception).
SequenceOver == wk \in {"completed", "aborted", "raised"}

\* C1: after a connect answered with a non-zero result, no subscribe is
\* issued on that connection, the process has not ended, and (unless an
\* interrupt arrives) a new connect attempt is eventually made, by the
\* foreground loop (line 108) or by the client's own reconnection.
C1_RejectedConnectRetried ==
    /\ [](rejected => (subs = 0 /\ pc # "crashed"))
    /\ ((rejected /\ conn = "none")
            ~> (interrupted \/ pc = "connect" \/ conn # "none"))

\* C2: the heartbeat loop issues no "online" publish while the session is
\* Disconnected (after a rejected connect, a forced disconnect or a lost
\* connection): every heartbeat publish step finds a connection.
C2_HeartbeatOnlyWhileConnected ==
    [][HeartbeatPublish => conn # "none"]_vars

\* C3: every payload that is not a valid object is rejected by on_message
\* without an exception leaving it: the message is logged and dropped, no
\* send is made and the network thread goes on to the next message.
C3_NonObjectRejectedQuietly ==
    (curId > 0 /\ cur.kind # "object")
        => (wk \in {"malformed", "nomac"} /\ ~woke /\ sends = 0
            /\ npc # "dead")

\* C4: a payload that is a valid object without a `mac` field is rejected
\* (line 55), whatever its `ip` and `repeat` fields: wakeup is not called
\* and send_wol is never invoked for that message.
C4_NoMacNoSend ==
    (curId > 0 /\ cur.kind = "object" /\ cur.mac = NoVal)
        => (wk = "nomac" /\ ~woke /\ sends = 0 /\ lastSend = NoSend
            /\ npc \notin {"wk_send", "wk_sleep", "dead"})

C4_Witness ==
    /\ cur.kind = "object" /\ cur.mac = NoVal
    /\ cur.ip # NoVal /\ cur.rtype = "int" /\ cur.repeat = MaxRepeat
    /\ wk = "nomac" /\ npc = "idle"

\* C5: the number of send_wol invocations of an accepted command follows
\* from its repeat value: absent gives count 2; a count <= 0 gives no send
\* and a normal return; a count N > 0 gives at most N sends, fewer than N
\* exactly when one of the first N-1 sends failed, and the first failed
\* send is the last send.
C5_SendCount ==
    (woke /\ cur.rtype # "nonint")
        => /\ (cur.rtype = "absent" => count = 2)
           /\ (cur.rtype = "int" => count = cur.repeat)
           /\ sends <= IF count > 0 THEN count ELSE 0
           /\ (failedAt # 0 => (sends = failedAt /\ SequenceOver))
           /\ (wk = "running" => failedAt = 0)
           /\ (count <= 0 => (wk = "completed" /\ sends = 0 /\ npc # "dead"))
           /\ ((count > 0 /\ SequenceOver)
                 => (sends < count <=> failedAt \in 1 .. (count - 1)))

C5_Witness ==
    /\ woke /\ cur.rtype = "int" /\ cur.repeat = 2
    /\ wk = "aborted" /\ sends = 1 /\ failedAt = 1

\* Positions of the shutdown path after its "offline" publish.
AfterOfflinePublish ==
    {"sd_sleep", "sd_loop_stop", "sd_join", "sd_disconnect", "done"}

OnConnectOnce ==
    /\ ((conn = "up" /\ npc \notin {"oc_subscribe", "oc_publish"})
            => (subs = 1 /\ onlineCb = 1))
    /\ onlineCb <= subs /\ subs <= 1

\* C7: for every successful connect the subscribe and on_connect's
\* "online" publish each occur exactly once, and no "online" publish is
\* issued on a connection before the subscribe, the heartbeat publishes of
\* the foreground loop included.
C7_SubscribeBeforeOnline ==
    /\ []OnConnectOnce
    /\ [][(HeartbeatPublish /\ conn # "none") => subs >= 1]_vars

\* C8: send_wol returns True exactly when the helper's stdout has the
\* confirmation phrase, and for every other helper outcome (the helper
\* binary missing included) returns False after logging one error, raising
\* nothing.
C8_SendWolNeverRaises ==
    (lastSend.result # "none" /\ cur.mac # NonString)
        => /\ (lastSend.result = "true" <=> lastSend.helper = "ok")
           /\ (lastSend.helper # "ok"
                 => (lastSend.result = "false" /\ lastSend.logged))

\* C9 as stated: every request that reaches wakeup has a non-empty, usable
\* mac.
C9_NonEmptyMac == woke => cur.mac \notin {NoVal, "", NonString}

\* C9 amended: on_message tests only the presence of `mac`: wakeup is
\* called exactly for the object payloads that have a mac field, whatever
\* its value, and sends happen only for those.
C9_MacPresent ==
    /\ curId > 0 => (woke <=> (cur.kind = "object" /\ cur.mac # NoVal))
    /\ sends > 0 => woke

C9_Witness == woke /\ cur.mac = "" /\ sends = 1

\* C10 as stated: in a wake sequence with at least one send no pause
\* follows the final send and the pauses number the successful sends minus
\* one (none when no send succeeded), also when a failed send aborts the
\* sequence.
C10_PausesSuccessesMinusOne ==
    (woke /\ sends >= 1 /\ wk \in {"completed", "aborted"})
        => /\ lastStep = "send"
           /\ pauses = IF succ >= 1 THEN succ - 1 ELSE 0

\* C10 amended: no pause follows the final send and the pauses number the
\* send invocations minus one: the successful sends minus one when all
\* sends succeed, the successful sends when a failed send ends the sequence.
C10_PausesSendsMinusOne ==
    /\ (woke /\ sends >= 1 /\ SequenceOver)
        => /\ lastStep = "send"
           /\ pauses = sends - 1
           /\ (wk = "completed" => pauses = succ - 1)
           /\ (wk # "completed" => pauses = succ)
    /\ (wk = "running" => pauses \in {sends - 1, sends})

C10_Witness ==
    /\ woke /\ wk = "aborted" /\ sends = 2 /\ succ = 1 /\ pauses = 1
    /\ lastStep = "send"

\* C11: no failure of any category (malformed payload, failed send, broker
\* rejection, socket-level connect failure of any kind) terminates the
\* process: the foreground thread never ends by an uncaught exception and
\* leaves its main loop only by an interrupt.
C11_NoFailureTerminates ==
    /\ pc # "crashed"
    /\ (pc \notin TryRegion => interrupted)

\* C12: a refused connect is followed by the log-and-pause handler and then
\* by another connect attempt, after any number of consecutive refusals;
\* once connect returns, the network loop is started and the heartbeat is
\* published (unless an interrupt comes first).
C12_RefusedRetried ==
    /\ [][(pc = "connect" /\ refusals' # refusals)
            => pc' = "refused_sleep"]_vars
    /\ [][pc = "refused_sleep"
            => pc' \in {"refused_sleep", "connect", "sd_publish"}]_vars
    /\ [](pc \in {"hb_publish", "hb_sleep"} => npc # "none")
    /\ (pc = "refused_sleep" ~> (pc = "connect" \/ interrupted))
    /\ (pc = "loop_start" ~> (pc = "hb_sleep" \/ interrupted))

C12_Witness ==
    /\ pc = "hb_sleep" /\ refusals = MaxRefusals /\ npc = "idle"
    /\ conn = "pending" /\ ~interrupted

\* C13: commands are handled one at a time in arrival order: the handling
\* of a message starts only when the handling of the one before is over
\* (all sends and pauses done), it is the oldest one waiting, and every
\* send belongs to the message being handled.
C13_OneAtATime ==
    /\ [][curId' # curId
            => /\ npc = "idle" /\ wk # "running"
               /\ inbox # <<>> /\ curId' = Head(inbox)
               /\ curId' > curId]_vars
    /\ [][sends' > sends
            => (curId' = curId /\ wk = "running" /\ npc = "wk_send")]_vars
    /\ [](\A k \in 1 .. Len(inbox) :
            /\ inbox[k] > curId
            /\ (k > 1 => inbox[k] > inbox[k - 1]))

C13_Witness ==
    /\ curId = 1 /\ wk = "running" /\ npc = "wk_sleep" /\ sends = 1
    /\ inbox = <<2>>

\* C14: every send_wol invocation of an accepted command runs the helper
\* on the mac of that command, with `-i <ip>` exactly when the payload
\* supplied an ip, and with that ip.
C14_SendTargets ==
    lastSend.result # "none"
        => LET a == lastSend.argv
           IN  /\ woke /\ cur.kind = "object"
               /\ a[1] = "wakeonlan"
               /\ a[Len(a)] = cur.mac
               /\ (cur.ip = NoVal => Len(a) = 2)
               /\ (cur.ip # NoVal
                     => (Len(a) = 4 /\ a[2] = "-i" /\ a[3] = cur.ip))

C14_Witness ==
    /\ cur.rtype = "int" /\ cur.repeat = 1 /\ wk = "completed" /\ sends = 1
    /\ lastSend.argv = <<"wakeonlan", "-i", "10.0.0.5", "AA:BB:CC:DD:EE:FF">>

\* C15: the last will "offline" is registered on the client before every
\* connect attempt, so whenever a broker connection exists (the first one
\* or a later reconnection) the will is registered for it.
C15_WillRegistered ==
    (pc = "connect" \/ refusals > 0 \/ conns > 0 \/ conn # "none")
        => willSet

C15_Witness == conn = "up" /\ conns = 2 /\ willSet /\ refusals = 1

\* C16: a wake sequence that has started ends only by completing all its
\* sends or at its first failed send; an interrupt leaves it untouched, it
\* does end, and the shutdown path's disconnect comes after its end.
C16_NoCancellation ==
    /\ [][(wk = "running" /\ wk' # "running")
            => /\ npc \in {"wk_send", "wk_sleep"} /\ curId' = curId
               /\ \/ wk' = "completed" /\ sends' = count /\ failedAt' = 0
                  \/ wk' \in {"aborted", "raised"} /\ failedAt' = sends']_vars
    /\ [][Interrupt => UNCHANGED <<npc, wakeVars>>]_vars
    /\ [](pc \in {"sd_disconnect", "done"} => wk # "running")
    /\ (wk = "running" ~> SequenceOver)

C16_Witness ==
    /\ interrupted /\ terminate /\ pc = "sd_join"
    /\ wk = "running" /\ npc = "wk_sleep"

\* C17: subscriptions are renewed on reconnect: every CONNACK with result
\* 0, on the first connection or a later one, starts on_connect's subscribe,
\* the subscribe follows, and from then on, while the session is Connected,
\* one subscription has been issued on the current connection.
C17_SubscriptionRenewed ==
    /\ [][(conn # "up" /\ conn' = "up")
            => (subs = 0 /\ npc' = "oc_subscribe")]_vars
    /\ []((conn = "up" /\ npc # "oc_subscribe") => subs = 1)
    /\ (npc = "oc_subscribe" ~> subs = 1)

C17_Witness ==
    /\ conns = 2 /\ conn = "up" /\ subs = 1 /\ npc = "idle"
    /\ pc = "hb_sleep"

\* C18: heartbeat publishing is independent of inbound traffic: while a
\* wake sequence is being handled on the network thread the heartbeat loop
\* can always take its next step, and unless an interrupt arrives it goes
\* on publishing "online" after each sleep, again and again.
C18_HeartbeatIndependent ==
    /\ []((pc = "hb_publish" /\ npc \in {"wk_send", "wk_sleep"})
            => ENABLED HeartbeatPublish)
    /\ []((pc = "hb_sleep" /\ npc \in {"wk_send", "wk_sleep"})
            => ENABLED HeartbeatSleep)
    /\ (pc = "hb_sleep" ~> (pc = "hb_publish" \/ interrupted))
    /\ (pc = "hb_publish" ~> (pc = "hb_sleep" \/ interrupted))

C18_Witness ==
    /\ pc = "hb_publish" /\ ~interrupted
    /\ wk = "running" /\ npc = "wk_sleep" /\ count = 2 /\ sends = 1

\* C19: client.connect returns at most once in the life of the process:
\* after it has returned and the network loop was started, the foreground
\* thread never calls connect or loop_start again, whatever happens to the
\* session, and it leaves the heartbeat loop only by an interrupt.
C19_ConnectOnce ==
    /\ [][(pc = "connect" /\ pc' = "loop_start")
            => (conns = 0 /\ npc = "none")]_vars
    /\ [](pc \in {"setup", "connect", "refused_sleep", "loop_start"}
            => (npc = "none" /\ conns = (IF pc = "loop_start" THEN 1 ELSE 0)))
    /\ [][(pc = "hb_publish" \/ pc = "hb_sleep")
            => (\/ pc' \in {"hb_publish", "hb_sleep"}
                \/ (pc' = "sd_publish" /\ ~interrupted /\ interrupted'))]_vars

C19_Witness ==
    /\ pc = "hb_sleep" /\ ~interrupted
    /\ rejected /\ conn = "none" /\ npc = "exited"

\* C20: once the shutdown path has completed loop_stop (and then
\* disconnect) the network thread has ended and no send_wol is invoked any
\* more; until then, after the "offline" publish, the sends of a command
\* being handled still happen.
C20_NoSendAfterShutdown ==
    /\ []((pc = "sd_disconnect" \/ pc = "done")
            => npc \in {"none", "stopped", "exited", "dead"})
    /\ [][(pc = "sd_disconnect" \/ pc = "done")
            => (sends' = sends /\ lastSend' = lastSend /\ curId' = curId)]_vars

C20_Witness ==
    /\ offlinePubs = 1 /\ pc = "sd_join"
    /\ wk = "running" /\ npc = "wk_send" /\ sends = 1 /\ count = 2

====
